---------------------------- MODULE Spec2Model ----------------------------
(***************************************************************************)
(* Gesture-controlled home automation server (server.py) with its          *)
(* finger-count classifier (gesture_detector.py).                          *)
(*                                                                         *)
(* The server is one asyncio event loop.  A coroutine runs without         *)
(* interruption from one `await` to the next, so every action below is one *)
(* such segment of a handler.  The wall clock (datetime.now()) is the      *)
(* variable `now`; it advances between segments.  One tick is half a       *)
(* second, so the default hold_time of 1.5 s is 3 ticks.                   *)
(***************************************************************************)
EXTENDS Integers, Sequences, FiniteSets, TLC

\* ------------------------------------------------------------------ bounds
\* Last instant of the wall clock that the model explores.
MaxTime == 7

\* Connections, frame messages, pings and HTTP requests that the whole
\* server takes in one behaviour.
MaxEvents == 5

\* Toggle requests in one behaviour of the broadcaster alone.
MaxRequests == 2

\* Toggle requests in one behaviour of the concurrent toggles.
MaxToggles == 3

\* Connections accepted in one behaviour of the concurrent toggles or of the
\* broadcaster alone.
MaxConnects == 2

\* Decodable frames in one behaviour of the concurrent toggles.
MaxFrames == 2

\* Broadcast sends that fail in one behaviour of the broadcaster alone.
MaxFailures == 1

\* The frame messages without an image that the real-time path is given.
MaxUndecodable == 1

\* Frames and select requests in one behaviour of the holds under changes of
\* the selection.
MaxSelectEvents == 3

\* Largest pixel coordinate of the landmarks given to the classifier.
MaxCoord == 1

\* ------------------------------------------------------- program constants
\* gesture_settings["hold_time"] = 1.5 s, in ticks of 0.5 s.
DefaultHoldTime == 3

\* Python's None for a datetime (gesture_start_time, last_updated).
NoTime == -1

\* Python's None for a string (last_gesture, optional response keys).
None == "None"

\* Landmark indices set in GestureDetector.__init__.
THUMB_TIP == 4
INDEX_TIP == 8
MIDDLE_TIP == 12
RING_TIP == 16
PINKY_TIP == 20

\* The keys of the module-level `devices` dict.
DeviceIds == {"device_1", "device_2", "device_3", "device_4"}

\* The websocket connections (sessions) and the HTTP request handlers that
\* may be in progress at the same time.
Sessions == {"ws1", "ws2"}
Requests == {"r1", "r2"}
Tasks == Sessions \cup Requests

\* The sessions of the specification of the real-time path alone.
HoldSessions == {"ws1"}

\* The HTTP handlers of the specification of the whole server.
ServerRequests == {"r1"}

\* f"device_{finger_count}"
DeviceKey(finger_count) ==
    CASE finger_count = 0 -> "device_0"
      [] finger_count = 1 -> "device_1"
      [] finger_count = 2 -> "device_2"
      [] finger_count = 3 -> "device_3"
      [] finger_count = 4 -> "device_4"
      [] OTHER -> "device_5"

\* -------------------------------------------------- gesture_detector.py
\* A landmarks_list is a sequence of <<id, x, y>>; Python's l[i][j] is
\* l[i + 1][j + 1] here.
At(landmarks_list, i, j) == landmarks_list[i + 1][j + 1]

\* The thumb test of count_fingers: tip x < x of the landmark before it.
ThumbExtended(landmarks_list) ==
    At(landmarks_list, THUMB_TIP, 1) < At(landmarks_list, THUMB_TIP - 1, 1)

\* The test of the four other fingers taking a tip level with its joint for
\* extended.
FingerExtendedOrLevel(landmarks_list, tip) ==
    At(landmarks_list, tip, 2) <= At(landmarks_list, tip - 2, 2)

\* The test of the four other fingers: tip y < y of the joint two before it.
FingerExtended(landmarks_list, tip) ==
    At(landmarks_list, tip, 2) < At(landmarks_list, tip - 2, 2)

\* GestureDetector.count_fingers
count_fingers(landmarks_list) ==
    IF Len(landmarks_list) = 0 THEN 0
    ELSE LET finger_tips == {INDEX_TIP, MIDDLE_TIP, RING_TIP, PINKY_TIP}
         IN  (IF ThumbExtended(landmarks_list) THEN 1 ELSE 0)
             + Cardinality({tip \in finger_tips :
                              FingerExtended(landmarks_list, tip)})

\* detect_gesture without its branch for five fingers.
detect_gesture_no_palm(landmarks_list) ==
    IF Len(landmarks_list) = 0 THEN "No Hand"
    ELSE LET finger_count == count_fingers(landmarks_list)
         IN  CASE finger_count = 0 -> "FIST (OFF)"
               [] finger_count = 1 -> "ONE FINGER"
               [] finger_count = 2 -> "TWO FINGERS"
               [] finger_count = 3 -> "THREE FINGERS"
               [] finger_count = 4 -> "FOUR FINGERS"
               [] OTHER -> "Unknown"

\* GestureDetector.detect_gesture
detect_gesture(landmarks_list) ==
    IF Len(landmarks_list) = 0 THEN "No Hand"
    ELSE LET finger_count == count_fingers(landmarks_list)
         IN  CASE finger_count = 0 -> "FIST (OFF)"
               [] finger_count = 5 -> "OPEN PALM (ON)"
               [] finger_count = 1 -> "ONE FINGER"
               [] finger_count = 2 -> "TWO FINGERS"
               [] finger_count = 3 -> "THREE FINGERS"
               [] finger_count = 4 -> "FOUR FINGERS"
               [] OTHER -> "Unknown"

\* get_hand_landmarks: [id, cx, cy] for the 21 landmarks of the first hand, or
\* the empty list.  HandOf(ext) is a hand whose extended fingers are `ext`
\* (0 thumb .. 4 pinky): an extended tip lies one pixel left of (thumb) or
\* above (others) the joint it is compared with, a flexed one on the joint.
HandOf(ext) ==
    [id \in 1..21 |->
        LET i == id - 1
        IN  <<i,
              IF i = THUMB_TIP /\ 0 \in ext THEN 4 ELSE 5,
              IF \E f \in 1..4 : i = 4 * f + 4 /\ f \in ext THEN 4 ELSE 5>>]

NoLandmarks == <<>>

\* The hands the frames of the model show: no hand, and 0 to 5 fingers.
FrameHands ==
    {NoLandmarks, HandOf({}), HandOf({1}), HandOf({1, 2}), HandOf({1, 2, 3}),
     HandOf({1, 2, 3, 4}), HandOf({0, 1, 2, 3, 4})}

\* The landmarks that count_fingers reads: x of the thumb tip and of the
\* landmark before it, y of the four other tips and of the joints two before.
ThumbPoints == {THUMB_TIP - 1, THUMB_TIP}
FingerPoints ==
    UNION {{tip - 2, tip} : tip \in {INDEX_TIP, MIDDLE_TIP, RING_TIP, PINKY_TIP}}

\* The landmarks_list of a hand whose thumb points have the x of cx and whose
\* finger points have the y of cy, every other coordinate being 0.
HandAt(cx, cy) ==
    [id \in 1..21 |->
        LET i == id - 1
        IN  <<i,
              IF i \in ThumbPoints THEN cx[i] ELSE 0,
              IF i \in FingerPoints THEN cy[i] ELSE 0>>]

\* The landmarks given to the classifier: no hand, and every hand whose
\* compared coordinates lie in 0..MaxCoord.
ClassifierHands ==
    {NoLandmarks} \cup
    {HandAt(cx, cy) : cx \in [ThumbPoints -> 0..MaxCoord],
                      cy \in [FingerPoints -> 0..MaxCoord]}

\* The hands of the frames of the whole server's specification: two fingers
\* and the open palm.
ServerHands == {HandOf({1, 2}), HandOf({0, 1, 2, 3, 4})}

\* ------------------------------------------------------------ server.py
VARIABLES
    now,                 \* datetime.now(), in ticks
    devices,             \* the module-level `devices` dict
    current_device,      \* the module-level `current_device`
    gesture_settings,    \* the module-level `gesture_settings` dict
    active_connections,  \* manager.active_connections, a list
    pc,                  \* the await each handler is suspended at
    last_gesture,        \* websocket_gesture_endpoint's local, per session
    gesture_start_time,  \* websocket_gesture_endpoint's local, per session
    frame,               \* the locals gesture and finger_count of the frame
    response,            \* the local `response` dict of the frame
    bcast,               \* a running manager.broadcast: its message and index
    sent,                \* what that broadcast has passed to send_json so far
    request,             \* an HTTP handler's operation and path parameter
    result,              \* the HTTP reply a handler is returning
    obs,                 \* history: a session's run of observations
    simulation,          \* test_hand.py: the simulation fed a session's frames
    audit,               \* history: a broadcast's mutation and its audience
    history,             \* history: what has mutated each device
    load                 \* history: connections, frames, requests, failures

vars == <<now, devices, current_device, gesture_settings, active_connections,
          pc, last_gesture, gesture_start_time, frame, response, bcast, sent,
          request, result, obs, simulation, audit, history, load>>

BroadcastPcs == {"select_broadcast", "update_broadcast"}

\* The `devices` dict as the module defines it.
InitDevices ==
    [d \in DeviceIds |->
        [name |-> CASE d = "device_1" -> "Living Room Light"
                    [] d = "device_2" -> "Bedroom Fan"
                    [] d = "device_3" -> "Kitchen Light"
                    [] OTHER -> "TV",
         state |-> FALSE,
         type |-> CASE d = "device_1" -> "light"
                    [] d = "device_2" -> "fan"
                    [] d = "device_3" -> "light"
                    [] OTHER -> "tv",
         last_updated |-> NoTime]]

\* The `gesture_settings` dict as the module defines it (confidence in
\* percent).
InitSettings ==
    [enabled |-> TRUE, confidence |-> 70, hold_time |-> DefaultHoldTime,
     max_hands |-> 1]

NoFrame == [landmarks |-> <<>>, gesture |-> None, finger_count |-> 0]

NoResponse ==
    [type |-> None, gesture |-> None, finger_count |-> 0,
     hand_detected |-> FALSE, timestamp |-> NoTime, hold_duration |-> NoTime,
     action_triggered |-> None, device_id |-> None, device_selected |-> None]

NoBroadcast == [type |-> None, device_id |-> None, i |-> 0]

NoRequest == [op |-> None, device_id |-> None]

NoResult == [status |-> 0]

NoAudit == [committed |-> [state |-> FALSE, last_updated |-> NoTime],
            stayed |-> {}]

NoObservation == [gesture |-> None, since |-> NoTime, broke |-> FALSE]

\* test_hand.py, lines 110-111: the simulation's locals before its first
\* frame, with the command its last frame executed (none yet).
SimulationStart ==
    [last_gesture |-> None, gesture_start_time |-> 0, command |-> None]

Init ==
    /\ now = 0
    /\ devices = InitDevices
    /\ current_device = "device_1"
    /\ gesture_settings = InitSettings
    /\ active_connections = <<>>
    /\ pc = [t \in Tasks |-> IF t \in Sessions THEN "closed" ELSE "idle"]
    /\ last_gesture = [s \in Sessions |-> None]
    /\ gesture_start_time = [s \in Sessions |-> NoTime]
    /\ frame = [s \in Sessions |-> NoFrame]
    /\ response = [s \in Sessions |-> NoResponse]
    /\ bcast = [t \in Tasks |-> NoBroadcast]
    /\ sent = [t \in Tasks |-> <<>>]
    /\ request = [r \in Requests |-> NoRequest]
    /\ result = [r \in Requests |-> NoResult]
    /\ obs = [s \in Sessions |-> NoObservation]
    /\ simulation = [s \in Sessions |-> SimulationStart]
    /\ audit = [t \in Tasks |-> NoAudit]
    /\ history = [d \in DeviceIds |-> [toggles |-> 0, other |-> FALSE]]
    /\ load = [events |-> 0, connects |-> 0, frames |-> 0, requests |-> 0,
               failures |-> 0, undecodable |-> 0]

\* The elements of a list, as a set.
Range(list) == {list[k] : k \in 1..Len(list)}

\* list.remove(x): the list without its first x.
ListRemove(list, x) ==
    LET k == CHOOSE k \in 1..Len(list) :
                 list[k] = x /\ \A j \in 1..(k - 1) : list[j] # x
    IN  SubSeq(list, 1, k - 1) \o SubSeq(list, k + 1, Len(list))

\* ConnectionManager.disconnect, with the history of who stayed registered.
ManagerDisconnect(s) ==
    /\ active_connections' = ListRemove(active_connections, s)
    /\ audit' = [t \in Tasks |->
                    [audit[t] EXCEPT !.stayed = audit[t].stayed \ {s}]]

\* What send_json serialises for a broadcast message when the devices are
\* `devs`: a device_update holds a reference to the device's dict, which is
\* read when the message is passed to send_json.
Serialize(message, devs) ==
    IF message.type = "device_update"
    THEN [type |-> message.type, device_id |-> message.device_id,
          device |-> devs[message.device_id]]
    ELSE [type |-> message.type, device_id |-> message.device_id]

\* One iteration of the loop of lines 96-100 up to its await: the message goes
\* to send_json of the connection at index i, whose outcome is known when the
\* broadcast resumes.
Sending(log, message, i, devs) ==
    Append(log, [to |-> active_connections[i + 1],
                 outcome |-> "pending",
                 message |-> Serialize(message, devs)])

\* The broadcast resumes: the send it waited for has delivered the message
\* (ok) or has raised, which `except: pass` swallows.
Resumed(log, ok) ==
    IF log = <<>> THEN log
    ELSE [log EXCEPT ![Len(log)].outcome = IF ok THEN "ok" ELSE "failed"]

\* manager.broadcast(message) called by task t, up to the await of its first
\* send (there is a first connection: the caller checks).  `post` is the
\* devices as the caller has just committed them.
StartBroadcast(t, type, device_id, label, post) ==
    LET message == [type |-> type, device_id |-> device_id]
    IN  /\ bcast' = [bcast EXCEPT ![t] =
               [type |-> type, device_id |-> device_id, i |-> 1]]
        /\ sent' = [sent EXCEPT ![t] = Sending(<<>>, message, 0, post)]
        /\ audit' = [audit EXCEPT ![t] =
               [committed |-> IF type = "device_update"
                              THEN [state |-> post[device_id].state,
                                    last_updated |->
                                        post[device_id].last_updated]
                              ELSE NoAudit.committed,
                stayed |-> Range(active_connections)]]
        /\ pc' = [pc EXCEPT ![t] = label]

\* The end of a broadcast: its iterator and message are dropped.
EndBroadcast(t) ==
    /\ bcast' = [bcast EXCEPT ![t] = NoBroadcast]
    /\ sent' = [sent EXCEPT ![t] = <<>>]
    /\ audit' = [audit EXCEPT ![t] = NoAudit]

\* The clock advances, up to the last instant explored.
Tick(last) ==
    /\ now < last
    /\ now' = now + 1
    /\ UNCHANGED <<devices, current_device, gesture_settings,
                   active_connections, pc, last_gesture, gesture_start_time,
                   frame, response, bcast, sent, request, result, obs, simulation, audit,
                   history>>

\* v is a number (a confidence in percent), whatever JSON value it is.
IsNumber(v) ==
    ToString(v) \in {ToString(n) : n \in 0..100}

\* GestureDetector.__init__ hands the confidences to the MediaPipe Hands
\* graph, whose options are float fields: a value that is no number raises.
DetectorRaises(settings) ==
    ~IsNumber(settings.confidence)

\* Lines 266-276: ConnectionManager.connect, the session's GestureDetector
\* and the handler's locals.  The detector is built after the connection is
\* registered and before the `try` of line 278: when it raises, the handler
\* ends there, with neither `except` branch run.  A name stands for a new
\* connection only when no connection still registered bears it.
Connect(s) ==
    /\ pc[s] = "closed"
    /\ s \notin Range(active_connections)
    /\ active_connections' = Append(active_connections, s)
    /\ IF DetectorRaises(gesture_settings)
       THEN UNCHANGED <<pc, last_gesture, gesture_start_time, frame,
                        response, obs, simulation>>
       ELSE /\ pc' = [pc EXCEPT ![s] = "recv"]
            /\ last_gesture' = [last_gesture EXCEPT ![s] = None]
            /\ gesture_start_time' =
                   [gesture_start_time EXCEPT ![s] = NoTime]
            /\ frame' = [frame EXCEPT ![s] = NoFrame]
            /\ response' = [response EXCEPT ![s] = NoResponse]
            /\ obs' = [obs EXCEPT ![s] = NoObservation]
            /\ simulation' = [simulation EXCEPT ![s] = SimulationStart]
    /\ UNCHANGED <<now, devices, current_device, gesture_settings, bcast,
                   sent, request, result, audit, history>>

\* The end of session s if the hold state were shared by the sessions
\* instead of being local to each handler.
EndSessionShared(s) ==
    /\ ManagerDisconnect(s)
    /\ pc' = [pc EXCEPT ![s] = "closed"]
    /\ last_gesture' = [o \in Sessions |-> None]
    /\ gesture_start_time' = [o \in Sessions |-> NoTime]
    /\ frame' = [frame EXCEPT ![s] = NoFrame]
    /\ response' = [response EXCEPT ![s] = NoResponse]
    /\ obs' = [obs EXCEPT ![s] = NoObservation]
    /\ simulation' = [simulation EXCEPT ![s] = SimulationStart]

\* The handler of session s returns (lines 367-373): the session is
\* deregistered and the handler's locals are gone.
EndSession(s) ==
    /\ ManagerDisconnect(s)
    /\ pc' = [pc EXCEPT ![s] = "closed"]
    /\ last_gesture' = [last_gesture EXCEPT ![s] = None]
    /\ gesture_start_time' = [gesture_start_time EXCEPT ![s] = NoTime]
    /\ frame' = [frame EXCEPT ![s] = NoFrame]
    /\ response' = [response EXCEPT ![s] = NoResponse]
    /\ obs' = [obs EXCEPT ![s] = NoObservation]
    /\ simulation' = [simulation EXCEPT ![s] = SimulationStart]

\* receive_text raises WebSocketDisconnect, or the message cannot be parsed.
Disconnect(s) ==
    /\ pc[s] = "recv"
    /\ EndSession(s)
    /\ UNCHANGED <<now, devices, current_device, gesture_settings, bcast,
                   sent, request, result, history>>

\* Line 310-312: the frame selects another device.
SelectsDevice(finger_count) ==
    /\ finger_count \in {1, 2, 3, 4}
    /\ DeviceKey(finger_count) \in DOMAIN devices
    /\ current_device # DeviceKey(finger_count)

\* Line 323: the gesture belongs to the hold branch.
IsHoldGesture(gesture) == gesture \in {"FIST (OFF)", "OPEN PALM (ON)"}

\* A session tracking nothing taken to be tracking the frame's gesture.
IsTrackedOrIdle(s, gesture) ==
    gesture = last_gesture[s] \/ last_gesture[s] = None

\* The comparison with the tracked gesture left out.
IsTrackedAlways(s, gesture) == TRUE

\* Line 324: the gesture is the one the session is tracking.
IsTracked(s, gesture) == gesture = last_gesture[s]

\* The hold gate that does not measure the hold.
HoldDurationUnmeasured(s) == NoTime

\* Line 326: the time the gesture has been held.
HoldDuration(s) == now - gesture_start_time[s]

\* The threshold of process start, whatever the settings are now.
HoldReachedDefault(hold_duration) == hold_duration >= DefaultHoldTime

\* The threshold compared with > instead of >=.
HoldReachedStrict(hold_duration) == hold_duration > gesture_settings.hold_time

\* Line 330: held long enough.
HoldReached(hold_duration) == hold_duration >= gesture_settings.hold_time

\* Lines 331-336: the state a confirmed gesture sets.
CommandState(gesture) == gesture = "OPEN PALM (ON)"

\* Lines 331-336: the action a confirmed gesture reports.
CommandAction(gesture) ==
    IF gesture = "OPEN PALM (ON)" THEN "turned_on" ELSE "turned_off"

\* The command applied to the device selected at start-up, whatever the
\* selection is when the hold fires.
CommandDevicesInitial(gesture) ==
    [devices EXCEPT !["device_1"] =
        [@ EXCEPT !.state = CommandState(gesture), !.last_updated = now]]

\* The confirmed gesture flipping the state instead of setting it.
CommandDevicesToggle(gesture) ==
    [devices EXCEPT ![current_device] =
        [@ EXCEPT !.state = ~@, !.last_updated = now]]

\* Lines 332-338: the devices after a confirmed gesture.
CommandDevices(gesture) ==
    [devices EXCEPT ![current_device] =
        [@ EXCEPT !.state = CommandState(gesture), !.last_updated = now]]

\* The hold gate tracking whatever gesture the frame shows.
RetrackedAny(gesture) ==
    [last_gesture |-> gesture, gesture_start_time |-> now]

\* Lines 354-358: the tracked gesture and hold start after a frame whose
\* gesture is not the tracked one.
Retracked(gesture) ==
    IF IsHoldGesture(gesture)
    THEN [last_gesture |-> gesture, gesture_start_time |-> now]
    ELSE [last_gesture |-> None, gesture_start_time |-> NoTime]

\* The device's history after a mutation that is not a toggle.
NotedOther(d) == [history EXCEPT ![d].other = TRUE]

\* Lines 322-358 up to the next await: the hold gate for the frame's gesture,
\* with `resp` the response built so far.  A confirmed gesture commits the
\* command and enters the broadcast of line 344; every other path goes on to
\* the reply of line 361, with no broadcast of the frame left running.
HoldLogic(s, gesture, resp) ==
    IF IsHoldGesture(gesture) /\ IsTracked(s, gesture)
    THEN LET hold_duration == HoldDuration(s)
             held == [resp EXCEPT !.hold_duration = hold_duration]
         IN  IF HoldReached(hold_duration)
             THEN /\ devices' = CommandDevices(gesture)
                  /\ history' = NotedOther(current_device)
                  /\ response' = [response EXCEPT ![s] =
                         [held EXCEPT
                             !.action_triggered = CommandAction(gesture),
                             !.device_id = current_device]]
                  /\ StartBroadcast(s, "device_update", current_device,
                                    "update_broadcast", devices')
                  /\ UNCHANGED <<last_gesture, gesture_start_time>>
             ELSE /\ response' = [response EXCEPT ![s] = held]
                  /\ pc' = [pc EXCEPT ![s] = "reply"]
                  /\ EndBroadcast(s)
                  /\ UNCHANGED <<devices, history, last_gesture,
                                 gesture_start_time>>
    ELSE /\ last_gesture' =
                [last_gesture EXCEPT ![s] = Retracked(gesture).last_gesture]
         /\ gesture_start_time' =
                [gesture_start_time EXCEPT ![s] =
                    Retracked(gesture).gesture_start_time]
         /\ response' = [response EXCEPT ![s] = resp]
         /\ pc' = [pc EXCEPT ![s] = "reply"]
         /\ EndBroadcast(s)
         /\ UNCHANGED <<devices, history>>

\* test_hand.py, line 112: the simulation's hold time, 1.5 s.
gesture_hold_time == 3

\* test_hand.py, lines 140-157: the hold logic of the simulation's loop for
\* a frame showing `gesture` at the instant `now`: its locals after the frame
\* and the command the frame executed on the simulated device.
device_control_simulation(sim, gesture) ==
    IF gesture = sim.last_gesture
          /\ gesture \in {"FIST (OFF)", "OPEN PALM (ON)"}
    THEN LET hold_duration == now - sim.gesture_start_time
         IN  IF hold_duration >= gesture_hold_time
             THEN [last_gesture |-> sim.last_gesture,
                   gesture_start_time |-> now,
                   command |-> IF gesture = "OPEN PALM (ON)"
                               THEN "ON" ELSE "OFF"]
             ELSE [sim EXCEPT !.command = None]
    ELSE [last_gesture |-> gesture, gesture_start_time |-> now,
          command |-> None]

\* The session's observation history after it has seen `gesture`: the gesture
\* and the instant of the first frame of the unbroken run of frames showing
\* it (kept for the two gestures that can command a device), and whether a
\* run of such a gesture has been broken by a different observation.
Observed(s, gesture) ==
    [obs EXCEPT ![s] =
        IF obs[s].gesture = gesture THEN obs[s]
        ELSE [gesture |-> IF gesture \in {"FIST (OFF)", "OPEN PALM (ON)"}
                          THEN gesture ELSE None,
              since |-> IF gesture \in {"FIST (OFF)", "OPEN PALM (ON)"}
                        THEN now ELSE NoTime,
              broke |-> obs[s].broke \/ obs[s].gesture # None]]

\* Lines 284-320 and, when no selection is broadcast, 322-358: a decodable
\* frame showing `landmarks` arrives at session s.
ReceiveFrame(s, landmarks) ==
    /\ pc[s] = "recv"
    /\ LET gesture == detect_gesture(landmarks)
           finger_count == IF Len(landmarks) > 0
                           THEN count_fingers(landmarks) ELSE 0
           resp == [NoResponse EXCEPT
                       !.type = "gesture_result",
                       !.gesture = gesture,
                       !.finger_count = finger_count,
                       !.hand_detected = Len(landmarks) > 0,
                       !.timestamp = now]
       IN  /\ frame' = [frame EXCEPT ![s] =
                   [landmarks |-> landmarks, gesture |-> gesture,
                    finger_count |-> finger_count]]
           /\ obs' = Observed(s, gesture)
           /\ simulation' = [simulation EXCEPT ![s] =
                  device_control_simulation(simulation[s], gesture)]
           /\ IF SelectsDevice(finger_count)
              THEN /\ current_device' = DeviceKey(finger_count)
                   /\ response' = [response EXCEPT ![s] =
                          [resp EXCEPT !.device_selected =
                                           DeviceKey(finger_count)]]
                   /\ StartBroadcast(s, "device_selected",
                                     DeviceKey(finger_count),
                                     "select_broadcast", devices)
                   /\ UNCHANGED <<devices, history, last_gesture,
                                  gesture_start_time>>
              ELSE /\ HoldLogic(s, gesture, resp)
                   /\ UNCHANGED current_device
    /\ UNCHANGED <<now, gesture_settings, active_connections, request, result>>

\* Lines 296-297: the landmarks of the frame of session s are classified.
Classify(s) ==
    /\ pc[s] = "landmarks"
    /\ LET landmarks == frame[s].landmarks
       IN  frame' = [frame EXCEPT ![s] =
               [landmarks |-> landmarks,
                gesture |-> detect_gesture(landmarks),
                finger_count |-> IF Len(landmarks) > 0
                                 THEN count_fingers(landmarks) ELSE 0]]
    /\ pc' = [pc EXCEPT ![s] = "classified"]
    /\ UNCHANGED <<now, devices, current_device, gesture_settings,
                   active_connections, last_gesture, gesture_start_time,
                   response, bcast, sent, request, result, obs, simulation, audit,
                   history, load>>

\* Lines 96-100: the broadcast of task t resumes after a send and passes its
\* message to the next connection of the list.
BroadcastSend(t, ok) ==
    /\ pc[t] \in BroadcastPcs
    /\ bcast[t].i < Len(active_connections)
    /\ sent' = [sent EXCEPT ![t] =
           Sending(Resumed(@, ok), bcast[t], bcast[t].i, devices)]
    /\ bcast' = [bcast EXCEPT ![t].i = @ + 1]
    /\ UNCHANGED <<now, devices, current_device, gesture_settings,
                   active_connections, pc, last_gesture, gesture_start_time,
                   frame, response, request, result, obs, simulation, audit, history>>

\* The broadcast of line 317 resumes with no connection left to send to
\* (whatever the last send did, `except: pass` leaves no trace of it): the
\* frame goes on with the hold gate (lines 322-358).
SelectBroadcastDone(s) ==
    /\ pc[s] = "select_broadcast"
    /\ bcast[s].i >= Len(active_connections)
    /\ HoldLogic(s, frame[s].gesture, response[s])
    /\ UNCHANGED <<now, current_device, gesture_settings, active_connections,
                   frame, request, result, obs, simulation>>

\* The handler going back to receive_text after the broadcast of a command,
\* its frame left unanswered.
UpdateBroadcastDoneUnanswered(s) ==
    /\ pc[s] = "update_broadcast"
    /\ bcast[s].i >= Len(active_connections)
    /\ gesture_start_time' = [gesture_start_time EXCEPT ![s] = now]
    /\ pc' = [pc EXCEPT ![s] = "recv"]
    /\ frame' = [frame EXCEPT ![s] = NoFrame]
    /\ response' = [response EXCEPT ![s] = NoResponse]
    /\ EndBroadcast(s)
    /\ UNCHANGED <<now, devices, current_device, gesture_settings,
                   active_connections, last_gesture, request, result, obs, simulation,
                   history>>

\* The broadcast of line 344 resumes with no connection left to send to: the
\* hold timer restarts (line 351) and the reply is next.
UpdateBroadcastDone(s) ==
    /\ pc[s] = "update_broadcast"
    /\ bcast[s].i >= Len(active_connections)
    /\ gesture_start_time' = [gesture_start_time EXCEPT ![s] = now]
    /\ pc' = [pc EXCEPT ![s] = "reply"]
    /\ EndBroadcast(s)
    /\ UNCHANGED <<now, devices, current_device, gesture_settings,
                   active_connections, last_gesture, frame, response,
                   request, result, obs, simulation, history>>

\* Line 361 or 365: the reply (gesture_result or pong) is sent to the session's
\* own connection and the loop is back at receive_text, the frame's locals
\* dead; a failed send raises into the handler of line 370, which ends the
\* session.
SendReply(s, ok) ==
    /\ pc[s] \in {"reply", "pong"}
    /\ IF ok
       THEN /\ pc' = [pc EXCEPT ![s] = "recv"]
            /\ frame' = [frame EXCEPT ![s] = NoFrame]
            /\ response' = [response EXCEPT ![s] = NoResponse]
            /\ UNCHANGED <<active_connections, audit, last_gesture,
                           gesture_start_time, obs, simulation>>
       ELSE EndSession(s)
    /\ UNCHANGED <<now, devices, current_device, gesture_settings, bcast,
                   sent, request, result, history>>

\* A ping taken for an observation of no gesture.
ReceivePingResets(s) ==
    /\ pc[s] = "recv"
    /\ pc' = [pc EXCEPT ![s] = "pong"]
    /\ last_gesture' = [last_gesture EXCEPT ![s] = None]
    /\ gesture_start_time' = [gesture_start_time EXCEPT ![s] = NoTime]
    /\ UNCHANGED <<now, devices, current_device, gesture_settings,
                   active_connections, frame, response, bcast, sent, request,
                   result, obs, simulation, audit, history>>

\* Lines 363-365: a keep-alive ping.
ReceivePing(s) ==
    /\ pc[s] = "recv"
    /\ pc' = [pc EXCEPT ![s] = "pong"]
    /\ UNCHANGED <<now, devices, current_device, gesture_settings,
                   active_connections, last_gesture, gesture_start_time,
                   frame, response, bcast, sent, request, result, obs, simulation, audit,
                   history>>

\* The "data" of frame messages that hold no image: base64 of bytes that are
\* no image ("data:image/jpeg;base64,AAAA"), base64 cut short
\* ("data:image/jpeg;base64,AAA"), and base64 without the data-URL prefix
\* ("AAAA").
Payloads == {"garbled", "truncated", "bare"}

\* Lines 286-288: the decoding raises instead of yielding None.
\* message["data"].split(",")[1] raises IndexError when the data holds no
\* comma, b64decode raises binascii.Error on incorrect padding; bytes that
\* are no image make cv2.imdecode return None.
DecodeRaises(payload) ==
    payload \in {"truncated", "bare"}

\* Lines 284-290 and 370-373: a frame message that holds no image arrives at
\* session s.  When imdecode returns None the frame is skipped and the handler
\* waits for the next message; when the decoding raises, `except Exception`
\* ends the session.
ReceiveUndecodable(s, payload) ==
    /\ pc[s] = "recv"
    /\ IF DecodeRaises(payload)
       THEN EndSession(s)
       ELSE UNCHANGED <<active_connections, pc, last_gesture,
                        gesture_start_time, frame, response, obs, simulation, audit>>
    /\ UNCHANGED <<now, devices, current_device, gesture_settings, bcast,
                   sent, request, result, history>>

\* The path parameters of the requests of the whole server's specification.
ServerIds == {"device_1", "device_2", "device_9"}

\* The devices that the concurrent toggles name.
ToggleIds == {"device_1", "device_2"}

\* The 404 response sent without its status_code.
NotFoundAsSuccess == [status |-> 200]

\* JSONResponse(status_code=404, ...) of lines 127-130, 143-146, 171-174 and
\* 201-204.
NotFound == [status |-> 404]

\* Lines 142 and 170: the path names a device.
KnownDevice(device_id) == device_id \in DOMAIN devices

\* get_device, lines 124-136: one step, there is no await in it.
GetDevice(r, d) ==
    /\ pc[r] = "idle"
    /\ result' = [result EXCEPT ![r] =
           IF ~KnownDevice(d) THEN NotFound
           ELSE [status |-> 200, device |-> devices[d]]]
    /\ request' = [request EXCEPT ![r] = [op |-> "get", device_id |-> d]]
    /\ pc' = [pc EXCEPT ![r] = "respond"]
    /\ UNCHANGED <<now, devices, current_device, gesture_settings,
                   active_connections, last_gesture, gesture_start_time,
                   frame, response, bcast, sent, obs, simulation, audit, history>>

\* The check of the path parameter left out.
SelectKnownAlways(device_id) == TRUE

\* Line 200: the path names a device that can be selected.
SelectKnown(device_id) == device_id \in DOMAIN devices

\* The reply reporting the device as it was before the handler changed it.
ReplyStale(op, device_id, devs, cur) ==
    IF op = "select"
    THEN [status |-> 200, current_device |-> cur]
    ELSE [status |-> 200, device_id |-> device_id,
          device |-> [devs[device_id] EXCEPT !.state = ~@]]

\* The reply of a handler whose broadcast is over (lines 161-164, 189-192,
\* 214-217), the devices being `devs` and the selection `cur`.
Reply(op, device_id, devs, cur) ==
    IF op = "select"
    THEN [status |-> 200, current_device |-> cur]
    ELSE [status |-> 200, device_id |-> device_id,
          device |-> devs[device_id]]

\* The handler returning its reply without the broadcast.
RequestBroadcastForgotten(r, op, type, device_id, label, post, cur) ==
    /\ request' = [request EXCEPT ![r] = [op |-> op, device_id |-> device_id]]
    /\ result' = [result EXCEPT ![r] = Reply(op, device_id, post, cur)]
    /\ pc' = [pc EXCEPT ![r] = "respond"]
    /\ EndBroadcast(r)

\* An HTTP handler has committed `post` and `cur` and calls manager.broadcast:
\* with no connection the loop body never runs and the handler returns its
\* reply in the same step; otherwise it is suspended in the first send.
RequestBroadcast(r, op, type, device_id, label, post, cur) ==
    /\ request' = [request EXCEPT ![r] = [op |-> op, device_id |-> device_id]]
    /\ IF active_connections = <<>>
       THEN /\ result' = [result EXCEPT ![r] =
                   Reply(op, device_id, post, cur)]
            /\ pc' = [pc EXCEPT ![r] = "respond"]
            /\ EndBroadcast(r)
       ELSE /\ StartBroadcast(r, type, device_id, label, post)
            /\ UNCHANGED result

\* The handler returns its 404 response (lines 142-146, 170-174, 200-204).
ReturnNotFound(r, op, device_id) ==
    /\ result' = [result EXCEPT ![r] = NotFound]
    /\ pc' = [pc EXCEPT ![r] = "respond"]
    /\ request' = [request EXCEPT ![r] = [op |-> op, device_id |-> device_id]]

\* The toggle switching the device on instead of flipping it.
ToggledDevicesOn(d) ==
    [devices EXCEPT ![d] = [@ EXCEPT !.state = TRUE, !.last_updated = now]]

\* The toggle that flips the state and leaves the stamping for later.
ToggledDevicesUnstamped(d) ==
    [devices EXCEPT ![d] = [@ EXCEPT !.state = ~devices[d].state]]

\* Python's truth value of a JSON value: false, the empty string and zero
\* are false, every other value the model holds is true.
Truthy(v) ==
    ToString(v) \notin {ToString(FALSE), ToString(""), ToString(0)}

\* Line 149-150: the devices after a toggle of d; `not` yields a boolean
\* whatever the state was.
ToggledDevices(d) ==
    [devices EXCEPT ![d] =
        [@ EXCEPT !.state = ~Truthy(devices[d].state), !.last_updated = now]]

\* The device's history after a toggle: the parity of its toggles.
NotedToggle(d) == [history EXCEPT ![d].toggles = (@ + 1) % 2]

\* toggle_device, lines 142-157 up to the first await.
ToggleDevice(r, d) ==
    /\ pc[r] = "idle"
    /\ IF ~KnownDevice(d)
       THEN /\ ReturnNotFound(r, "toggle", d)
            /\ UNCHANGED <<devices, history, bcast, sent, audit>>
       ELSE /\ devices' = ToggledDevices(d)
            /\ history' = NotedToggle(d)
            /\ RequestBroadcast(r, "toggle", "device_update", d,
                                "update_broadcast", devices', current_device)
    /\ UNCHANGED <<now, current_device, gesture_settings, active_connections,
                   last_gesture, gesture_start_time, frame, response, obs, simulation>>

\* set_device_state, lines 170-176: the handler waits for the request body.
SetDeviceState(r, d) ==
    /\ pc[r] = "idle"
    /\ IF ~KnownDevice(d)
       THEN ReturnNotFound(r, "state", d)
       ELSE /\ request' = [request EXCEPT ![r] =
                   [op |-> "state", device_id |-> d]]
            /\ pc' = [pc EXCEPT ![r] = "json"]
            /\ UNCHANGED result
    /\ UNCHANGED <<now, devices, current_device, gesture_settings,
                   active_connections, last_gesture, gesture_start_time,
                   frame, response, bcast, sent, obs, simulation, audit, history>>

\* set_device_state replacing the device's dict by a new one.
StoredDevicesReplaced(d, state) ==
    [devices EXCEPT ![d] = [state |-> state, last_updated |-> now]]

\* Line 179-180: the devices after set_device_state stores `state`.
StoredDevices(d, state) ==
    [devices EXCEPT ![d] = [@ EXCEPT !.state = state, !.last_updated = now]]

\* Line 177: data.get("state", False).
BodyState(data) ==
    IF "state" \in DOMAIN data THEN data.state ELSE FALSE

\* set_device_state, lines 176-187: the body `data` has arrived; its state
\* is stored as it is.
SetDeviceStateBody(r, data) ==
    /\ pc[r] = "json"
    /\ devices' = StoredDevices(request[r].device_id, BodyState(data))
    /\ history' = NotedOther(request[r].device_id)
    /\ RequestBroadcast(r, "state", "device_update", request[r].device_id,
                        "update_broadcast", devices', current_device)
    /\ UNCHANGED <<now, current_device, gesture_settings, active_connections,
                   last_gesture, gesture_start_time, frame, response, obs, simulation>>

\* select_device, lines 198-212 up to the first await.
SelectDevice(r, d) ==
    /\ pc[r] = "idle"
    /\ IF ~SelectKnown(d)
       THEN /\ ReturnNotFound(r, "select", d)
            /\ UNCHANGED <<current_device, bcast, sent, audit>>
       ELSE /\ current_device' = d
            /\ RequestBroadcast(r, "select", "device_selected", d,
                                "select_broadcast", devices, d)
    /\ UNCHANGED <<now, devices, gesture_settings, active_connections,
                   last_gesture, gesture_start_time, frame, response, obs, simulation,
                   history>>

\* Lines 234-239: the settings after update_settings has applied `data`; it
\* copies the keys enabled, confidence and hold_time that the body holds.
UpdatedSettings(data) ==
    [k \in DOMAIN gesture_settings |->
        IF k \in {"enabled", "confidence", "hold_time"} /\ k \in DOMAIN data
        THEN data[k] ELSE gesture_settings[k]]

\* update_settings, lines 230-244: nothing is read before the body arrives,
\* so the request and its body are one step.
UpdateSettings(r, data) ==
    /\ pc[r] = "idle"
    /\ gesture_settings' = UpdatedSettings(data)
    /\ result' = [result EXCEPT ![r] =
           [status |-> 200, settings |-> gesture_settings']]
    /\ pc' = [pc EXCEPT ![r] = "respond"]
    /\ UNCHANGED <<now, devices, current_device, active_connections,
                   last_gesture, gesture_start_time, frame, response, bcast,
                   sent, request, obs, simulation, audit, history>>

\* The broadcast of an HTTP handler resumes with no connection left to send
\* to: the handler returns its reply, whatever the last send did.
RequestDone(r, ok) ==
    /\ r \in Requests
    /\ pc[r] \in BroadcastPcs
    /\ bcast[r].i >= Len(active_connections)
    /\ sent' = [sent EXCEPT ![r] = Resumed(@, ok)]
    /\ result' = [result EXCEPT ![r] =
           Reply(request[r].op, request[r].device_id, devices,
                 current_device)]
    /\ pc' = [pc EXCEPT ![r] = "respond"]
    /\ UNCHANGED <<now, devices, current_device, gesture_settings,
                   active_connections, last_gesture, gesture_start_time,
                   frame, response, bcast, request, obs, simulation, audit, history>>

\* The reply has gone to the HTTP client; the handler is free again and
\* nothing of the request is left.
Respond(r) ==
    /\ r \in Requests
    /\ pc[r] = "respond"
    /\ result' = [result EXCEPT ![r] = NoResult]
    /\ request' = [request EXCEPT ![r] = NoRequest]
    /\ pc' = [pc EXCEPT ![r] = "idle"]
    /\ EndBroadcast(r)
    /\ UNCHANGED <<now, devices, current_device, gesture_settings,
                   active_connections, last_gesture, gesture_start_time,
                   frame, response, obs, simulation, history>>

\* ------------------------------------------------------- specifications
\* What the handler of session s does after it has taken a message.
SessionProgress(s) ==
    \/ SelectBroadcastDone(s)
    \/ UpdateBroadcastDone(s)
    \/ \E ok \in BOOLEAN : SendReply(s, ok)

\* The next event at session s, the frames showing `hands`.
SessionEvent(s, hands) ==
    \/ Connect(s)
    \/ Disconnect(s)
    \/ \E landmarks \in hands : ReceiveFrame(s, landmarks)
    \/ ReceivePing(s)

\* The load after one more connection, frame or request.
Loaded(what) ==
    [load EXCEPT ![what] = @ + 1]

\* A connection, a decodable frame, a request or a failing send within the
\* load the specification allows.
Within(what, most, step) ==
    /\ load[what] < most
    /\ step
    /\ load' = Loaded(what)

\* The whole server taking a bounded number of events, the clock standing
\* still: two sessions and an HTTP client whose requests follow one another;
\* update_settings can set hold_time to zero, so that a gesture is confirmed
\* by its second frame.
Next ==
    \/ \E s \in Sessions : Within("events", MaxEvents, Connect(s))
    \/ \E s \in Sessions, landmarks \in ServerHands :
           Within("events", MaxEvents, ReceiveFrame(s, landmarks))
    \/ \E s \in Sessions :
           (Disconnect(s) \/ SessionProgress(s)) /\ UNCHANGED load
    \/ \E s \in Sessions, payload \in Payloads :
           Within("events", MaxEvents,
                  ReceivePing(s) \/ ReceiveUndecodable(s, payload))
    \/ \E r \in ServerRequests, d \in ServerIds :
           Within("events", MaxEvents,
                  GetDevice(r, d) \/ ToggleDevice(r, d)
                      \/ SetDeviceState(r, d) \/ SelectDevice(r, d))
    \/ \E r \in ServerRequests :
           UpdateSettings(r, [hold_time |-> 0]) /\ UNCHANGED load
    \/ \E r \in ServerRequests :
           /\ \/ \E state \in BOOLEAN :
                     SetDeviceStateBody(r, [state |-> state])
              \/ RequestDone(r, TRUE)
              \/ Respond(r)
           /\ UNCHANGED load
    \/ \E t \in Sessions \cup ServerRequests :
           BroadcastSend(t, TRUE) /\ UNCHANGED load

Spec == Init /\ [][Next]_vars

\* Concurrent mutations of the devices: two HTTP handlers that toggle, and a
\* session whose held gestures command the selected device.  With one
\* connection every broadcast is a single send.
NextToggle ==
    \/ \E s \in HoldSessions : Within("connects", MaxConnects, Connect(s))
    \/ \E s \in HoldSessions, landmarks \in ServerHands :
           Within("frames", MaxFrames, ReceiveFrame(s, landmarks))
    \/ \E s \in HoldSessions : SessionProgress(s) /\ UNCHANGED load
    \/ \E r \in Requests, d \in ToggleIds :
           Within("requests", MaxToggles, ToggleDevice(r, d))
    \/ \E r \in Requests :
           UpdateSettings(r, [hold_time |-> 0]) /\ UNCHANGED load
    \/ \E r \in Requests :
           (RequestDone(r, TRUE) \/ Respond(r)) /\ UNCHANGED load

SpecToggle == Init /\ [][NextToggle]_vars

\* The real-time path alone: one session and the clock, no HTTP request and
\* no bound on the frames.  The session is the only connection, so each of
\* its broadcasts is a single send, to itself.
NextHold ==
    \/ Tick(MaxTime) /\ UNCHANGED load
    \/ \E s \in HoldSessions :
           /\ SessionEvent(s, FrameHands) \/ SessionProgress(s)
           /\ UNCHANGED load
    \/ \E s \in HoldSessions, payload \in Payloads :
           Within("undecodable", MaxUndecodable,
                  ReceiveUndecodable(s, payload))

SpecHold == Init /\ [][NextHold]_vars

\* The broadcaster under membership changes, failing sends and concurrent
\* mutations: two sessions that connect and disconnect, two HTTP handlers
\* that toggle device_1.
NextBroadcast ==
    \/ \E s \in Sessions : Within("connects", MaxConnects, Connect(s))
    \/ \E s \in Sessions : Disconnect(s) /\ UNCHANGED load
    \/ \E r \in Requests :
           Within("requests", MaxRequests, ToggleDevice(r, "device_1"))
    \/ \E r \in Requests :
           (BroadcastSend(r, TRUE) \/ RequestDone(r, TRUE) \/ Respond(r))
               /\ UNCHANGED load
    \/ \E r \in Requests :
           Within("failures", MaxFailures,
                  BroadcastSend(r, FALSE) \/ RequestDone(r, FALSE))

SpecBroadcast == Init /\ [][NextBroadcast]_vars

\* The set-up and the end of sessions under settings updates: two sessions
\* that connect and disconnect, an HTTP client that updates the confidence
\* and toggles device_1, whose update is broadcast.
NextSetup ==
    \/ \E s \in Sessions : Within("connects", MaxConnects, Connect(s))
    \/ \E s \in Sessions : Disconnect(s) /\ UNCHANGED load
    \/ \E r \in ServerRequests :
           Within("requests", MaxRequests,
                  \/ UpdateSettings(r, [confidence |-> "high"])
                  \/ UpdateSettings(r, [confidence |-> 50]))
    \/ \E r \in ServerRequests :
           Within("requests", MaxRequests, ToggleDevice(r, "device_1"))
    \/ \E r \in ServerRequests :
           (BroadcastSend(r, TRUE) \/ RequestDone(r, TRUE) \/ Respond(r))
               /\ UNCHANGED load

SpecSetup == Init /\ [][NextSetup]_vars

\* The classifier alone: session ws1 is connected and has extracted the
\* landmarks of a frame (lines 291-294), which are any of ClassifierHands.
InitClassifier ==
    /\ now = 0
    /\ devices = InitDevices
    /\ current_device = "device_1"
    /\ gesture_settings = InitSettings
    /\ active_connections = <<"ws1">>
    /\ pc = [t \in Tasks |-> IF t = "ws1" THEN "landmarks"
                             ELSE IF t \in Sessions THEN "closed" ELSE "idle"]
    /\ last_gesture = [s \in Sessions |-> None]
    /\ gesture_start_time = [s \in Sessions |-> NoTime]
    /\ \E landmarks \in ClassifierHands :
           frame = [s \in Sessions |->
                       IF s = "ws1"
                       THEN [NoFrame EXCEPT !.landmarks = landmarks]
                       ELSE NoFrame]
    /\ response = [s \in Sessions |-> NoResponse]
    /\ bcast = [t \in Tasks |-> NoBroadcast]
    /\ sent = [t \in Tasks |-> <<>>]
    /\ request = [r \in Requests |-> NoRequest]
    /\ result = [r \in Requests |-> NoResult]
    /\ obs = [s \in Sessions |-> NoObservation]
    /\ simulation = [s \in Sessions |-> SimulationStart]
    /\ audit = [t \in Tasks |-> NoAudit]
    /\ history = [d \in DeviceIds |-> [toggles |-> 0, other |-> FALSE]]
    /\ load = [events |-> 0, connects |-> 0, frames |-> 0, requests |-> 0,
               failures |-> 0, undecodable |-> 0]

NextClassifier ==
    \E s \in HoldSessions : Classify(s)

SpecClassifier == InitClassifier /\ [][NextClassifier]_vars

\* The writers of a device's state: an HTTP client that toggles and sets the
\* state with bodies of any kind (a boolean state, a string state, no state),
\* and a session whose held gestures command the selected device.
NextState ==
    \/ \E s \in HoldSessions : Within("connects", MaxConnects, Connect(s))
    \/ \E s \in HoldSessions, landmarks \in ServerHands :
           Within("frames", MaxFrames, ReceiveFrame(s, landmarks))
    \/ \E s \in HoldSessions : SessionProgress(s) /\ UNCHANGED load
    \/ \E r \in ServerRequests, d \in ToggleIds :
           Within("requests", MaxToggles,
                  ToggleDevice(r, d) \/ SetDeviceState(r, d))
    \/ \E r \in ServerRequests :
           UpdateSettings(r, [hold_time |-> 0]) /\ UNCHANGED load
    \/ \E r \in ServerRequests :
           /\ \/ SetDeviceStateBody(r, [state |-> TRUE])
              \/ SetDeviceStateBody(r, [state |-> "on"])
              \/ SetDeviceStateBody(r, [brightness |-> 5])
              \/ RequestDone(r, TRUE)
              \/ Respond(r)
           /\ UNCHANGED load

SpecState == Init /\ [][NextState]_vars

\* The mutations of the devices as the clock runs: a session whose held
\* gestures command the selected device after the default hold time, and an
\* HTTP client that reads, toggles and sets devices at any instant.
NextStamp ==
    \/ Tick(DefaultHoldTime) /\ UNCHANGED load
    \/ \E s \in HoldSessions : Within("events", MaxEvents, Connect(s))
    \/ \E s \in HoldSessions, landmarks \in ServerHands :
           Within("events", MaxEvents, ReceiveFrame(s, landmarks))
    \/ \E s \in HoldSessions : SessionProgress(s) /\ UNCHANGED load
    \/ \E r \in ServerRequests, d \in ToggleIds :
           Within("events", MaxEvents,
                  GetDevice(r, d) \/ ToggleDevice(r, d)
                      \/ SetDeviceState(r, d))
    \/ \E r \in ServerRequests :
           /\ \/ \E state \in BOOLEAN :
                     SetDeviceStateBody(r, [state |-> state])
              \/ RequestDone(r, TRUE)
              \/ Respond(r)
           /\ UNCHANGED load

SpecStamp == Init /\ [][NextStamp]_vars

\* Holds under changes of the selection as the clock runs: two sessions whose
\* frames show two fingers or the open palm, and an HTTP client that selects
\* devices.
NextSelect ==
    \/ Tick(DefaultHoldTime) /\ UNCHANGED load
    \/ \E s \in Sessions : Within("connects", MaxConnects, Connect(s))
    \/ \E s \in Sessions, landmarks \in ServerHands :
           Within("events", MaxSelectEvents, ReceiveFrame(s, landmarks))
    \/ \E s \in Sessions : SessionProgress(s) /\ UNCHANGED load
    \/ \E r \in ServerRequests, d \in ToggleIds :
           Within("events", MaxSelectEvents, SelectDevice(r, d))
    \/ \E r \in ServerRequests :
           (RequestDone(r, TRUE) \/ Respond(r)) /\ UNCHANGED load
    \/ \E t \in Sessions \cup ServerRequests :
           BroadcastSend(t, TRUE) /\ UNCHANGED load

SpecSelect == Init /\ [][NextSelect]_vars

\* Holds under settings updates as the clock runs: a session whose frames
\* show any hand, and an HTTP client that sets the hold time to one tick, to
\* zero or to a negative value, or sends a body with the keys enabled and
\* max_hands.
NextSettings ==
    \/ Tick(DefaultHoldTime) /\ UNCHANGED load
    \/ \E s \in HoldSessions : Within("connects", MaxConnects, Connect(s))
    \/ \E s \in HoldSessions, landmarks \in FrameHands :
           Within("frames", MaxFrames, ReceiveFrame(s, landmarks))
    \/ \E s \in HoldSessions : SessionProgress(s) /\ UNCHANGED load
    \/ \E r \in ServerRequests :
           Within("requests", MaxRequests,
                  \/ UpdateSettings(r, [hold_time |-> 1])
                  \/ UpdateSettings(r, [hold_time |-> 0])
                  \/ UpdateSettings(r, [hold_time |-> -1])
                  \/ UpdateSettings(r, [enabled |-> FALSE, max_hands |-> 2]))
    \/ \E r \in ServerRequests : Respond(r) /\ UNCHANGED load

SpecSettings == Init /\ [][NextSettings]_vars

\* ----------------------------------------------------------- properties
\* A step in which session s takes a decodable frame.
FrameStep(s) == pc[s] = "recv" /\ frame'[s] # NoFrame

\* A step in which session s commits an on/off command.
Fires(s) == pc[s] # "update_broadcast" /\ pc'[s] = "update_broadcast"

\* The frame that session s takes shows Fist or OpenPalm, the gesture of the
\* observation before it, and the hold has lasted for the threshold.
HeldForThreshold(s) ==
    /\ frame'[s].gesture \in {"FIST (OFF)", "OPEN PALM (ON)"}
    /\ obs[s].gesture = frame'[s].gesture
    /\ now - gesture_start_time[s] >= gesture_settings.hold_time

\* C1: an on/off command fires on a frame if and only if the frame's gesture
\* is Fist or OpenPalm, it is the gesture of the immediately preceding
\* observation, and the time since the session's hold start has reached the
\* configured threshold; nothing fires below the threshold and nothing but a
\* frame fires.
C1_FiresIffHeld ==
    [][\A s \in Sessions :
          /\ FrameStep(s) => (Fires(s) <=> HeldForThreshold(s))
          /\ FrameStep(s) =>
                 (response'[s].action_triggered # None <=> HeldForThreshold(s))
          /\ Fires(s) => FrameStep(s)
          /\ Fires(s) =>
                 response'[s].action_triggered =
                     IF frame'[s].gesture = "OPEN PALM (ON)"
                     THEN "turned_on" ELSE "turned_off"]_vars

\* An open palm held for exactly the threshold since its first frame turns
\* the device on.
C1_Witness ==
    \E s \in Sessions :
        /\ pc[s] = "update_broadcast"
        /\ response[s].action_triggered = "turned_on"
        /\ response[s].hold_duration = gesture_settings.hold_time
        /\ now - obs[s].since = gesture_settings.hold_time

\* C2: an observation that differs from the gesture being held discards the
\* hold: it fires nothing and leaves the gate tracking the new gesture from
\* now (or nothing); a command fires only when its gesture has been observed
\* without interruption for a full threshold since the first frame of the
\* run; a frame with no hand is "No Hand", never a fist, and fires nothing.
C2_InterruptionDiscardsHold ==
    [][\A s \in Sessions :
          /\ Fires(s) =>
                 /\ obs'[s].gesture = frame'[s].gesture
                 /\ now - obs'[s].since >= gesture_settings.hold_time
                 /\ gesture_start_time[s] >= obs'[s].since
          /\ (FrameStep(s) /\ frame'[s].gesture # obs[s].gesture) =>
                 /\ ~Fires(s)
                 /\ response'[s].action_triggered = None
                 /\ obs'[s].since \in {now, NoTime}
          /\ (FrameStep(s) /\ frame'[s].gesture # obs[s].gesture
                 /\ pc'[s] = "reply") =>
                 IF frame'[s].gesture \in {"FIST (OFF)", "OPEN PALM (ON)"}
                 THEN /\ last_gesture'[s] = frame'[s].gesture
                      /\ gesture_start_time'[s] = now
                 ELSE /\ last_gesture'[s] = None
                      /\ gesture_start_time'[s] = NoTime
          /\ (pc[s] = "select_broadcast" /\ pc'[s] # "select_broadcast") =>
                 /\ pc'[s] = "reply"
                 /\ last_gesture'[s] = None
                 /\ gesture_start_time'[s] = NoTime
          /\ (FrameStep(s) /\ ~response'[s].hand_detected) =>
                 /\ frame'[s].gesture = "No Hand"
                 /\ response'[s].gesture = "No Hand"
                 /\ ~Fires(s)
                 /\ response'[s].action_triggered = None
                 /\ last_gesture'[s] = None]_vars

\* A command fires in a session one of whose holds was interrupted before.
C2_Witness ==
    \E s \in Sessions :
        /\ pc[s] = "update_broadcast"
        /\ response[s].action_triggered # None
        /\ obs[s].broke

\* C3: when a command fires the hold restarts at the instant of the firing
\* observation, the instant the elapsed time was measured at, so that a
\* gesture held on fires at T and at 2T after its first observation.
C3_RestartsAtFiringInstant ==
    \A s \in Sessions :
        (pc[s] = "reply" /\ response[s].action_triggered # None) =>
            gesture_start_time[s] = response[s].timestamp

\* C4: a confirmed OpenPalm sets the selected device on and a confirmed Fist
\* sets it off, whatever its state was, and stamps its last_updated; every
\* other device and the selection are as they were.
C4_CommandSetsSelected ==
    [][\A s \in Sessions :
          Fires(s) =>
              /\ frame'[s].gesture \in {"FIST (OFF)", "OPEN PALM (ON)"}
              /\ devices'[current_device].state =
                     (frame'[s].gesture = "OPEN PALM (ON)")
              /\ devices'[current_device].last_updated = now
              /\ devices'[current_device].name = devices[current_device].name
              /\ devices'[current_device].type = devices[current_device].type
              /\ \A d \in DeviceIds \ {current_device} :
                     devices'[d] = devices[d]
              /\ DOMAIN devices' = DOMAIN devices
              /\ current_device' = current_device]_vars

\* An open palm turns on a device selected by a gesture while the device
\* turned on before is still on.
C4_Witness ==
    \E s \in Sessions :
        /\ pc[s] = "update_broadcast"
        /\ response[s].action_triggered = "turned_on"
        /\ current_device = "device_2"
        /\ devices["device_2"].state
        /\ devices["device_1"].state
        /\ devices["device_1"].last_updated < now

\* The number of times a broadcast has passed its message to session v.
Attempts(log, v) == Cardinality({k \in 1..Len(log) : log[k].to = v})

\* C5: a frame whose finger count k is 1..4 selects device_k at once: when
\* device_k exists and is not the selection, the selection becomes device_k
\* and a device_selected event for it is broadcast to all sessions (each
\* session registered throughout is sent it once); when it is the selection
\* already, and for 0 and 5 fingers, the selection stays and no
\* device_selected event is broadcast.
C5_FingerCountSelects ==
    [][\A s \in Sessions :
          /\ FrameStep(s) =>
                 LET k == frame'[s].finger_count
                     device_k == IF k \in 1..4
                                 THEN <<"device_1", "device_2", "device_3",
                                        "device_4">>[k]
                                 ELSE None
                 IN  IF device_k \in DeviceIds /\ device_k # current_device
                     THEN /\ current_device' = device_k
                          /\ response'[s].device_selected = device_k
                          /\ pc'[s] = "select_broadcast"
                          /\ bcast'[s].type = "device_selected"
                          /\ bcast'[s].device_id = device_k
                     ELSE /\ current_device' = current_device
                          /\ response'[s].device_selected = None
                          /\ pc'[s] # "select_broadcast"
          /\ (pc[s] = "select_broadcast" /\ pc'[s] # "select_broadcast") =>
                 \A v \in audit[s].stayed :
                     /\ Attempts(sent[s], v) = 1
                     /\ \A k \in 1..Len(sent[s]) :
                            sent[s][k].message =
                                [type |-> "device_selected",
                                 device_id |-> bcast[s].device_id]]_vars

\* C6: in every reachable state exactly one device is selected, and it is
\* one of the devices defined at process start.
C6_OneSelectedDevice ==
    /\ Cardinality({d \in DOMAIN InitDevices : d = current_device}) = 1
    /\ current_device \in DOMAIN devices

\* A frame and a select request have both changed the selection and are both
\* still broadcasting it, a device having been switched on before.
C6_Witness ==
    /\ \E s \in Sessions : pc[s] = "select_broadcast"
    /\ \E r \in Requests : pc[r] = "select_broadcast"
    /\ current_device = "device_1"
    /\ \E d \in DeviceIds : devices[d].state

\* A device that only toggles have touched is in its initial state after an
\* even number of toggles and in the opposite state after an odd number.
ToggleParity ==
    \A d \in DeviceIds :
        ~history[d].other =>
            devices[d].state = (InitDevices[d].state # (history[d].toggles = 1))

\* C7: no toggle is lost: every toggle flips its device and changes no other
\* device, so a device that only toggles have touched is in its initial state
\* after an even number of toggles and in the opposite state after an odd
\* number, whatever else runs concurrently.
C7_NoLostToggle ==
    [][/\ ToggleParity'
       /\ \A d \in DeviceIds :
              history'[d].toggles # history[d].toggles =>
                  /\ devices'[d].state = ~devices[d].state
                  /\ \A e \in DeviceIds \ {d} : devices'[e] = devices[e]]_vars

\* Two toggles of device_2 and the broadcast of a gesture command are in
\* progress together, device_2 having been toggled twice and nothing else.
C7_Witness ==
    /\ \A r \in Requests :
           pc[r] = "update_broadcast" /\ request[r].device_id = "device_2"
    /\ \E s \in Sessions : pc[s] = "update_broadcast"
    /\ ~history["device_2"].other
    /\ history["device_2"].toggles = 0
    /\ load.requests >= 2

\* C8: a broadcast reaches every session that is registered from its start to
\* its end exactly once, also when other sessions connect or disconnect
\* between two of its sends.
C8_ReachesEveryRegistered ==
    \A r \in Requests :
        (pc[r] = "respond" /\ bcast[r].type # None) =>
            \A v \in audit[r].stayed : Attempts(sent[r], v) = 1

\* C9: every device_update passed to a session for a mutation carries the
\* state and the last_updated that the mutation committed, for every
\* recipient, also when the device is mutated again during the broadcast.
C9_CarriesCommitted ==
    \A t \in Tasks :
        \A k \in 1..Len(sent[t]) :
            sent[t][k].message.type = "device_update" =>
                /\ sent[t][k].message.device.state = audit[t].committed.state
                /\ sent[t][k].message.device.last_updated
                       = audit[t].committed.last_updated

\* C10: a send that fails during a broadcast is isolated: resuming from it
\* changes neither the devices nor the selection and raises nothing, the
\* operation ends with its normal reply, and every other session registered
\* throughout has still been sent the message.
C10_FailureIsolated ==
    [][\A r \in Requests :
          /\ (pc[r] \in BroadcastPcs /\ sent[r] # <<>>
                 /\ sent'[r] # <<>>
                 /\ sent'[r][Len(sent[r])].outcome = "failed") =>
                 /\ devices' = devices
                 /\ current_device' = current_device
                 /\ pc'[r] \in BroadcastPcs \cup {"respond"}
          /\ (pc[r] \in BroadcastPcs /\ pc'[r] = "respond"
                 /\ \E k \in 1..Len(sent'[r]) :
                        sent'[r][k].outcome = "failed") =>
                 /\ result'[r].status = 200
                 /\ \A v \in audit'[r].stayed :
                        Attempts(sent'[r], v) = 1]_vars

\* A step in which the HTTP handler r commits a toggle or a set-state.
Commits(r) ==
    /\ pc[r] \in {"idle", "json"}
    /\ pc'[r] \in {"update_broadcast", "respond"}
    /\ request'[r].op \in {"toggle", "state"}
    /\ result'[r] # NotFound

\* A step in which the HTTP handler r commits a selection.
Selects(r) ==
    /\ pc[r] = "idle"
    /\ pc'[r] \in {"select_broadcast", "respond"}
    /\ request'[r].op = "select"
    /\ result'[r] # NotFound

\* Task t has entered the broadcast of one message of the given type about
\* device d, of the given shape, its first send under way and its own reply
\* still to come.
Announces(t, type, d, keys) ==
    /\ pc'[t] = (IF type = "device_update" THEN "update_broadcast"
                 ELSE "select_broadcast")
    /\ bcast'[t] = [type |-> type, device_id |-> d, i |-> 1]
    /\ Len(sent'[t]) = 1
    /\ DOMAIN sent'[t][1].message = keys
    /\ sent'[t][1].message.type = type
    /\ sent'[t][1].message.device_id = d
    /\ t \in Requests => result'[t] = NoResult

\* C11: every successful change of a device's state (API toggle, API
\* set-state, confirmed gesture) stamps the device and is followed, after the
\* commit and before the originator's reply, by exactly one device_update
\* broadcast of the shape {type, device_id, device} on all three paths; every
\* selection change (API select, finger count) is followed likewise by exactly
\* one device_selected broadcast of the shape {type, device_id}.
C11_MutationThenOneBroadcast ==
    [][/\ \A r \in Requests :
              Commits(r) =>
                  /\ devices'[request'[r].device_id].last_updated = now
                  /\ active_connections # <<>> =>
                         /\ Announces(r, "device_update",
                                      request'[r].device_id,
                                      {"type", "device_id", "device"})
                         /\ sent'[r][1].message.device
                                = devices'[request'[r].device_id]
       /\ \A s \in Sessions :
              Fires(s) =>
                  /\ devices'[current_device].last_updated = now
                  /\ Announces(s, "device_update", current_device,
                               {"type", "device_id", "device"})
                  /\ sent'[s][1].message.device = devices'[current_device]
       /\ devices' # devices =>
              \/ \E r \in Requests : Commits(r)
              \/ \E s \in Sessions : Fires(s)
       /\ \A r \in Requests :
              (Selects(r) /\ active_connections # <<>>) =>
                  Announces(r, "device_selected", current_device',
                            {"type", "device_id"})
       /\ \A s \in Sessions :
              (FrameStep(s) /\ current_device' # current_device) =>
                  Announces(s, "device_selected", current_device',
                            {"type", "device_id"})
       /\ current_device' # current_device =>
              \/ \E r \in Requests : Selects(r)
              \/ \E s \in Sessions : FrameStep(s)
       /\ \A t \in Tasks :
              pc[t] \in BroadcastPcs =>
                  \/ /\ pc'[t] = pc[t]
                     /\ bcast'[t].type = bcast[t].type
                     /\ bcast'[t].device_id = bcast[t].device_id
                  \/ /\ pc'[t] \in {"reply", "respond"}
                     /\ t \in Sessions => bcast'[t] = NoBroadcast
                  \/ /\ pc[t] = "select_broadcast" /\ Fires(t)]_vars

\* A confirmed gesture and a set-state request are broadcasting their
\* device_update at the same time.
C11_Witness ==
    /\ \E s \in Sessions : pc[s] = "update_broadcast"
    /\ \E r \in Requests :
           /\ pc[r] = "update_broadcast"
           /\ request[r].op = "state"
           /\ DOMAIN sent[r][1].message = {"type", "device_id", "device"}

\* C12: a get, toggle, set-state or select request that names an identifier
\* which is not a defined device returns not-found and changes nothing: no
\* device, no timestamp, not the selection, and no event is broadcast; and
\* only such a request is answered not-found.
C12_UnknownDeviceChangesNothing ==
    [][\A r \in Requests :
          /\ (pc[r] = "idle" /\ pc'[r] # "idle"
                 /\ request'[r].op \in {"get", "toggle", "state", "select"}
                 /\ request'[r].device_id \notin DOMAIN InitDevices) =>
                 /\ pc'[r] = "respond"
                 /\ result'[r].status = 404
                 /\ devices' = devices
                 /\ current_device' = current_device
                 /\ bcast' = bcast
                 /\ sent' = sent
          /\ (pc[r] = "idle" /\ pc'[r] # "idle"
                 /\ result'[r].status = 404) =>
                 request'[r].device_id \notin DOMAIN InitDevices]_vars

\* A select request for an unknown device has been answered not-found while
\* the selection made by a frame is still being broadcast.
C12_Witness ==
    \E r \in Requests :
        /\ pc[r] = "respond"
        /\ result[r].status = 404
        /\ request[r].op = "select"
        /\ current_device = "device_2"
        /\ \E s \in Sessions : pc[s] = "select_broadcast"

\* C13: the hold state (tracked gesture and hold start) is private to a
\* session: no step of another session (frame, ping, undecodable frame,
\* disconnect, broadcast) and no step of an API request changes it; and the
\* step that ends one session leaves every other session's hold state, the
\* devices and the selection as they were.
C13_HoldStatePrivate ==
    [][\A s \in Sessions :
          /\ pc'[s] = pc[s] =>
                 /\ last_gesture'[s] = last_gesture[s]
                 /\ gesture_start_time'[s] = gesture_start_time[s]
          /\ (pc[s] # "closed" /\ pc'[s] = "closed") =>
                 /\ \A o \in Sessions \ {s} :
                        /\ last_gesture'[o] = last_gesture[o]
                        /\ gesture_start_time'[o] = gesture_start_time[o]
                 /\ devices' = devices
                 /\ current_device' = current_device]_vars

\* Session ws2 holds an open palm whose command is being broadcast, first to
\* ws1, and ws1 has ended in the meantime: ws2 still tracks its gesture and
\* the device is still on.
C13_Witness ==
    /\ pc["ws2"] = "update_broadcast"
    /\ sent["ws2"][1].to = "ws1"
    /\ pc["ws1"] = "closed"
    /\ last_gesture["ws2"] = "OPEN PALM (ON)"
    /\ gesture_start_time["ws2"] # NoTime
    /\ devices[current_device].state

\* The sessions registered with the connection manager.
Registered == Range(active_connections)

\* C14: at every instant the registered sessions are exactly those that have
\* connected and not ended, each listed once; the step that ends a session
\* (client disconnect, or an error while one of its messages is handled)
\* removes it, once, and rolls back neither a device nor the selection; and
\* every message a broadcast passes to a connection goes to a session that is
\* registered then, so none goes to a session that has ended.
C14_EndedSessionDeregistered ==
    /\ [](/\ Len(active_connections) = Cardinality(Registered)
          /\ Registered = {s \in Sessions : pc[s] # "closed"})
    /\ [][/\ \A s \in Sessions :
                 (pc[s] # "closed" /\ pc'[s] = "closed") =>
                     /\ s \in Registered
                     /\ Registered' = Registered \ {s}
                     /\ Len(active_connections') = Len(active_connections) - 1
                     /\ devices' = devices
                     /\ current_device' = current_device
          /\ \A t \in Tasks :
                 (bcast'[t] # bcast[t] /\ bcast'[t] # NoBroadcast) =>
                     /\ sent'[t] # <<>>
                     /\ sent'[t][Len(sent'[t])].outcome = "pending"
                     /\ sent'[t][Len(sent'[t])].to \in Registered
                     /\ pc[sent'[t][Len(sent'[t])].to] # "closed"]_vars

\* C15: a frame message whose image cannot be decoded is skipped: the
\* session that sent it stays connected and registered with its hold state
\* as it was, no device and not the selection changes, and nothing is sent
\* to any session.
C15_UndecodableFrameSkipped ==
    [][\A s \in Sessions :
          (load'.undecodable # load.undecodable /\ pc[s] = "recv") =>
              /\ pc'[s] = "recv"
              /\ active_connections' = active_connections
              /\ last_gesture'[s] = last_gesture[s]
              /\ gesture_start_time'[s] = gesture_start_time[s]
              /\ devices' = devices
              /\ current_device' = current_device
              /\ bcast' = bcast
              /\ sent' = sent]_vars

\* C16: a ping is answered with one pong to its sender and nothing else
\* happens: taking the ping starts no frame processing and changes neither
\* the session's hold state nor a device nor the selection nor the
\* registered sessions, and broadcasts nothing; the pong is the single send
\* that follows, after which the session waits for its next message with the
\* hold state it had, so a ping between the frames of a hold does not
\* interrupt it.
C16_PingOnlyPongs ==
    [][\A s \in Sessions :
          /\ (pc[s] = "recv" /\ pc'[s] = "pong") =>
                 /\ last_gesture'[s] = last_gesture[s]
                 /\ gesture_start_time'[s] = gesture_start_time[s]
                 /\ frame'[s] = NoFrame
                 /\ response'[s] = NoResponse
                 /\ obs' = obs
                 /\ devices' = devices
                 /\ current_device' = current_device
                 /\ active_connections' = active_connections
                 /\ bcast' = bcast
                 /\ sent' = sent
          /\ (pc[s] = "pong" /\ pc'[s] # "pong") =>
                 /\ pc'[s] \in {"recv", "closed"}
                 /\ devices' = devices
                 /\ current_device' = current_device
                 /\ bcast' = bcast
                 /\ sent' = sent
                 /\ pc'[s] = "recv" =>
                        /\ last_gesture'[s] = last_gesture[s]
                        /\ gesture_start_time'[s] = gesture_start_time[s]
                        /\ obs' = obs]_vars

\* A ping has arrived one or two ticks into the hold of an open palm, and its
\* pong is about to be sent.
C16_Witness ==
    \E s \in Sessions :
        /\ pc[s] = "pong"
        /\ last_gesture[s] = "OPEN PALM (ON)"
        /\ now - gesture_start_time[s] \in 1..(DefaultHoldTime - 1)
        /\ obs[s].since = gesture_start_time[s]

\* The fingers (0 thumb .. 4 pinky) that the landmarks l show extended: the
\* thumb when the x of landmark 4 is less than the x of landmark 3, finger f
\* when the y of its tip 4f + 4 is less than the y of landmark 4f + 2.
ExtendedFingers(l) ==
    {f \in 0..4 : IF f = 0 THEN l[5][2] < l[4][2]
                           ELSE l[4 * f + 5][3] < l[4 * f + 3][3]}

\* The gesture the specification names for n extended fingers.
GestureOfCount(n) ==
    <<"FIST (OFF)", "ONE FINGER", "TWO FINGERS", "THREE FINGERS",
      "FOUR FINGERS", "OPEN PALM (ON)">>[n + 1]

\* C17: for every hand of 21 landmarks the gesture depends on the number of
\* extended fingers alone: 0 is the fist, 5 the open palm, 1 to 4 the one to
\* four fingers; an absent hand is "No Hand"; "Unknown" is never produced.
C17_GestureByFingerCount ==
    \A s \in Sessions :
        pc[s] = "classified" =>
            /\ frame[s].gesture # "Unknown"
            /\ frame[s].gesture =
                   IF frame[s].landmarks = NoLandmarks THEN "No Hand"
                   ELSE GestureOfCount(
                            Cardinality(ExtendedFingers(frame[s].landmarks)))

\* Three fingers, the thumb among them and the index not, are classified.
C17_Witness ==
    \E s \in Sessions :
        /\ pc[s] = "classified"
        /\ frame[s].gesture = "THREE FINGERS"
        /\ Len(frame[s].landmarks) = 21
        /\ 0 \in ExtendedFingers(frame[s].landmarks)
        /\ 1 \notin ExtendedFingers(frame[s].landmarks)

\* C18: the finger count is [x of landmark 4 < x of landmark 3] plus the
\* number of tips t in {8, 12, 16, 20} whose y is strictly less than the y of
\* landmark t - 2, a tip level with its joint counting as flexed; it lies in
\* 0..5, and the empty landmark list gives 0.
C18_FingerCountFormula ==
    \A s \in Sessions :
        pc[s] = "classified" =>
            LET l == frame[s].landmarks
            IN  /\ frame[s].finger_count \in 0..5
                /\ frame[s].finger_count =
                       IF l = NoLandmarks THEN 0
                       ELSE (IF l[5][2] < l[4][2] THEN 1 ELSE 0)
                            + Cardinality({t \in {8, 12, 16, 20} :
                                  l[t + 1][3] < l[t - 1][3]})

\* A hand whose index tip is level with its joint and whose four other
\* fingers are extended counts four.
C18_Witness ==
    \E s \in Sessions :
        /\ pc[s] = "classified"
        /\ Len(frame[s].landmarks) = 21
        /\ frame[s].landmarks[9][3] = frame[s].landmarks[7][3]
        /\ frame[s].finger_count = 4

IsBoolean(v) ==
    ToString(v) \in {ToString(TRUE), ToString(FALSE)}

\* C20: in every reachable state the on/off state of every device is a
\* boolean, whatever toggles, set-state requests (with a boolean state, a
\* state that is no boolean, or no state in the body) and gesture commands
\* have been applied.
C20_StateIsBoolean ==
    \A d \in DeviceIds : IsBoolean(devices[d].state)

\* C21: the device identifiers, and the name and type of each device, are
\* in every reachable state what they were at process start: no frame, API
\* request, settings update, connect or disconnect creates, removes or
\* renames a device.
C21_DevicesFixed ==
    /\ DOMAIN devices = DOMAIN InitDevices
    /\ \A d \in DOMAIN InitDevices :
           /\ DOMAIN devices[d] = DOMAIN InitDevices[d]
           /\ devices[d].name = InitDevices[d].name
           /\ devices[d].type = InitDevices[d].type

\* device_2 has been selected by a frame and switched on, the hold time has
\* been updated, a set-state request is being answered and a session has
\* connected.
C21_Witness ==
    /\ current_device = "device_2"
    /\ devices["device_2"].state
    /\ devices["device_2"].last_updated # NoTime
    /\ gesture_settings.hold_time = 0
    /\ active_connections # <<>>
    /\ \E r \in Requests : pc[r] = "respond" /\ request[r].op = "state"

\* Session s is processing a frame: it is in a broadcast of the frame or
\* about to send the frame's gesture_result.
Processing(s) == pc[s] \in {"select_broadcast", "update_broadcast", "reply"}

\* C22: the frames of a session are processed strictly one after another: a
\* frame is taken only when the session waits for a message and holds no
\* frame; its processing then goes through the broadcast of a selection, the
\* broadcast of a command and the reply, in that order and each at most once,
\* with the frame and the gesture of its gesture_result kept; and the session
\* waits for its next message again only after the reply (or a pong, or a
\* new connection), so each frame is answered by one gesture_result, sent
\* before the next frame is taken.
C22_FramesSequential ==
    [][\A s \in Sessions :
          /\ (frame'[s] # frame[s] /\ frame'[s] # NoFrame) =>
                 /\ pc[s] = "recv"
                 /\ frame[s] = NoFrame
                 /\ Processing(s)'
                 /\ response'[s].type = "gesture_result"
                 /\ response'[s].gesture = frame'[s].gesture
                 /\ response'[s].finger_count = frame'[s].finger_count
          /\ (Processing(s) /\ pc'[s] # pc[s]) =>
                 /\ pc[s] = "select_broadcast" =>
                        pc'[s] \in {"update_broadcast", "reply"}
                 /\ pc[s] = "update_broadcast" => pc'[s] = "reply"
                 /\ pc[s] = "reply" => pc'[s] \in {"recv", "closed"}
                 /\ Processing(s)' =>
                        /\ frame'[s] = frame[s]
                        /\ response'[s].type = "gesture_result"
                        /\ response'[s].gesture = frame[s].gesture
          /\ (Processing(s) /\ pc'[s] = pc[s]) =>
                 /\ frame'[s] = frame[s]
                 /\ response'[s] = response[s]
          /\ (pc[s] # "recv" /\ pc'[s] = "recv") =>
                 /\ pc[s] \in {"reply", "pong", "closed"}
                 /\ frame'[s] = NoFrame]_vars

\* The frame that confirmed an open palm has been classified, gated,
\* committed and broadcast, and its gesture_result is about to be sent.
C22_Witness ==
    \E s \in Sessions :
        /\ pc[s] = "reply"
        /\ frame[s].gesture = "OPEN PALM (ON)"
        /\ response[s].type = "gesture_result"
        /\ response[s].action_triggered = "turned_on"
        /\ response[s].device_id = current_device
        /\ devices[current_device].state

\* C23: a frame that repeats the gesture the session tracks (fist or open
\* palm) before the hold time has elapsed leaves the tracked gesture and the
\* hold start as they are, is answered with the elapsed hold duration and no
\* triggered action, changes no device state or timestamp and not the
\* selection, and broadcasts nothing.
C23_RepeatBelowThreshold ==
    [][\A s \in Sessions :
          (/\ FrameStep(s)
           /\ frame'[s].gesture \in {"FIST (OFF)", "OPEN PALM (ON)"}
           /\ frame'[s].gesture = last_gesture[s]
           /\ now - gesture_start_time[s] < gesture_settings.hold_time) =>
              /\ last_gesture'[s] = last_gesture[s]
              /\ gesture_start_time'[s] = gesture_start_time[s]
              /\ pc'[s] = "reply"
              /\ response'[s].hold_duration = now - gesture_start_time[s]
              /\ response'[s].action_triggered = None
              /\ response'[s].device_id = None
              /\ response'[s].device_selected = None
              /\ devices' = devices
              /\ current_device' = current_device
              /\ bcast' = bcast
              /\ sent' = sent]_vars

\* The reply to a frame that repeats a fist held for one or two ticks, short
\* of the three of the hold time.
C23_Witness ==
    \E s \in Sessions :
        /\ pc[s] = "reply"
        /\ frame[s].gesture = "FIST (OFF)"
        /\ last_gesture[s] = "FIST (OFF)"
        /\ response[s].hold_duration \in 1..(DefaultHoldTime - 1)
        /\ response[s].hold_duration = now - gesture_start_time[s]
        /\ response[s].action_triggered = None

\* The device record dev of device d is not a half-made mutation: a record
\* that bears no timestamp still has the state of process start.
Stamped(d, dev) ==
    dev.last_updated = NoTime => dev.state = InitDevices[d].state

\* C24: a change of a device's on/off state is atomic with its timestamp: the
\* step that changes the state of a device stamps it with the time of that
\* step, so that no device in the registry, no device returned to an API
\* client and no device handed to a send of a broadcast has a changed state
\* without the timestamp of the change.
C24_StateAtomicWithStamp ==
    /\ [](/\ \A d \in DeviceIds : Stamped(d, devices[d])
          /\ \A r \in Requests :
                 (pc[r] = "respond" /\ result[r].status = 200
                      /\ request[r].op \in {"get", "toggle", "state"}) =>
                     Stamped(request[r].device_id, result[r].device)
          /\ \A t \in Tasks : \A k \in 1..Len(sent[t]) :
                 sent[t][k].message.type = "device_update" =>
                     Stamped(sent[t][k].message.device_id,
                             sent[t][k].message.device))
    /\ [][\A d \in DeviceIds :
              devices'[d].state # devices[d].state =>
                  devices'[d].last_updated = now]_vars

\* At tick 3 a toggle has switched device_2 off again, which a held open palm
\* had switched on earlier, and its update is being sent to the session.
C24_Witness ==
    \E r \in Requests :
        /\ pc[r] = "update_broadcast"
        /\ request[r] = [op |-> "toggle", device_id |-> "device_2"]
        /\ now = DefaultHoldTime
        /\ history["device_2"].other
        /\ devices["device_2"] =
               [InitDevices["device_2"] EXCEPT !.last_updated = now]
        /\ sent[r][1].message.device.last_updated = now

\* C25: no frame both changes the selection and fires a command.  A frame
\* changes the selection only with a finger count of 1 to 4, and such a frame
\* commits nothing: after the broadcast of its selection it resets the
\* session's hold state and is answered with no triggered action.  A frame
\* fires a command only with a fist (0 fingers) or an open palm (5), and such
\* a frame selects nothing.
C25_SelectOrCommand ==
    [][\A s \in Sessions :
          /\ (FrameStep(s) /\ current_device' # current_device) =>
                 /\ frame'[s].finger_count \in 1..4
                 /\ pc'[s] = "select_broadcast"
                 /\ response'[s].device_selected = current_device'
                 /\ response'[s].action_triggered = None
                 /\ devices' = devices
          /\ (pc[s] = "select_broadcast" /\ pc'[s] # pc[s]) =>
                 /\ pc'[s] = "reply"
                 /\ last_gesture'[s] = None
                 /\ gesture_start_time'[s] = NoTime
                 /\ response'[s].device_selected # None
                 /\ response'[s].action_triggered = None
                 /\ devices' = devices
          /\ Fires(s) =>
                 /\ frame'[s].finger_count \in {0, 5}
                 /\ frame'[s].gesture \in {"FIST (OFF)", "OPEN PALM (ON)"}
                 /\ response'[s].device_selected = None
                 /\ response'[s].action_triggered # None
                 /\ current_device' = current_device]_vars

\* A frame showing three fingers has interrupted a hold: device_3 is selected,
\* the hold state is reset and the reply reports no action.
C25_Witness ==
    \E s \in Sessions :
        /\ pc[s] = "reply"
        /\ response[s].device_selected = "device_3"
        /\ current_device = "device_3"
        /\ response[s].action_triggered = None
        /\ obs[s].broke
        /\ last_gesture[s] = None
        /\ gesture_start_time[s] = NoTime

\* Session s tracks a gesture that it may be holding.
MidHold(s) == last_gesture[s] \in {"FIST (OFF)", "OPEN PALM (ON)"}

\* C26: a change of the selection by another session or by the select API
\* while a session is in the middle of a hold leaves that session's hold as
\* it is; and when a hold fires, the command is applied to the device that
\* is selected at that instant and to no other, and the reply and every
\* message of the broadcast name that device.
C26_FiresOnSelectedAtFiring ==
    [][\A s \in Sessions :
          /\ (pc'[s] = pc[s] /\ current_device' # current_device
                  /\ MidHold(s)) =>
                 /\ last_gesture'[s] = last_gesture[s]
                 /\ gesture_start_time'[s] = gesture_start_time[s]
          /\ Fires(s) =>
                 /\ current_device' = current_device
                 /\ devices'[current_device].state =
                        (frame'[s].gesture = "OPEN PALM (ON)")
                 /\ devices'[current_device].last_updated = now
                 /\ \A e \in DeviceIds \ {current_device} :
                        devices'[e] = devices[e]
                 /\ response'[s].device_id = current_device
                 /\ response'[s].hold_duration = now - gesture_start_time[s]
                 /\ bcast'[s].type = "device_update"
                 /\ bcast'[s].device_id = current_device
          /\ pc'[s] = "update_broadcast" =>
                 /\ response'[s].device_id # None
                 /\ \A k \in 1..Len(sent'[s]) :
                        sent'[s][k].message.device_id = response'[s].device_id
          /\ (pc[s] = "update_broadcast" /\ pc'[s] = "reply") =>
                 response'[s] = response[s]]_vars

\* The open palm that ws1 has held for the hold time has fired on device_2,
\* which a frame of ws2 selected after the hold had begun.
C26_Witness ==
    /\ pc["ws1"] = "update_broadcast"
    /\ response["ws1"].action_triggered = "turned_on"
    /\ response["ws1"].device_id = "device_2"
    /\ response["ws1"].hold_duration = DefaultHoldTime
    /\ gesture_start_time["ws1"] = now - DefaultHoldTime
    /\ pc["ws2"] \in {"select_broadcast", "reply"}
    /\ response["ws2"].device_selected = "device_2"
    /\ response["ws2"].timestamp > gesture_start_time["ws1"]
    /\ response["ws2"].timestamp < now
    /\ devices["device_2"].state
    /\ ~devices["device_1"].state

\* The keys of the settings that a step changes.
ChangedSettings ==
    {k \in DOMAIN gesture_settings : gesture_settings'[k] # gesture_settings[k]}

\* C27: the hold time is read from the shared settings by every frame: a
\* frame that repeats the tracked gesture fires exactly when the time held
\* since the hold began has reached the hold time the settings have at that
\* frame, the hold start being kept, so a hold that a settings update has
\* made long enough fires on its next frame; and a settings update changes
\* only settings, only among enabled, confidence and hold_time, and no
\* device, selection or hold state.
C27_HoldTimeReadPerFrame ==
    [][/\ \A s \in Sessions :
              (/\ FrameStep(s)
               /\ frame'[s].gesture \in {"FIST (OFF)", "OPEN PALM (ON)"}
               /\ frame'[s].gesture = last_gesture[s]) =>
                  /\ Fires(s) <=>
                         now - gesture_start_time[s]
                             >= gesture_settings.hold_time
                  /\ response'[s].hold_duration = now - gesture_start_time[s]
                  /\ gesture_start_time'[s] = gesture_start_time[s]
                  /\ last_gesture'[s] = last_gesture[s]
       /\ gesture_settings' # gesture_settings =>
              /\ DOMAIN gesture_settings' = DOMAIN gesture_settings
              /\ ChangedSettings \subseteq {"enabled", "confidence", "hold_time"}
              /\ \E r \in Requests :
                     /\ pc[r] = "idle" /\ pc'[r] = "respond"
                     /\ result'[r] =
                            [status |-> 200, settings |-> gesture_settings']
              /\ devices' = devices
              /\ current_device' = current_device
              /\ last_gesture' = last_gesture
              /\ gesture_start_time' = gesture_start_time
              /\ active_connections' = active_connections
              /\ sent' = sent]_vars

\* With the hold time lowered to one tick, an open palm held for two ticks,
\* short of the three of process start, has fired on the frame that repeats
\* it, the hold start still being the instant of its first frame.
C27_Witness ==
    \E s \in Sessions :
        /\ pc[s] = "update_broadcast"
        /\ gesture_settings.hold_time = 1
        /\ response[s].hold_duration = 2
        /\ response[s].action_triggered = "turned_on"
        /\ gesture_start_time[s] = now - 2
        /\ obs[s].since = gesture_start_time[s]
        /\ devices[current_device].state

\* C28: the first frame on which a session sees a fist or an open palm
\* after seeing nothing of interest or the other gesture fires no command,
\* reports no hold duration and changes no device, whatever the hold time,
\* zero and negative ones included: it only starts the hold at that instant;
\* so a frame that fires has the previous observation showing its gesture.
C28_FirstObservationNeverFires ==
    [][\A s \in Sessions :
          /\ (/\ FrameStep(s)
              /\ frame'[s].gesture \in {"FIST (OFF)", "OPEN PALM (ON)"}
              /\ obs[s].gesture # frame'[s].gesture) =>
                 /\ ~Fires(s)
                 /\ pc'[s] = "reply"
                 /\ response'[s].hold_duration = NoTime
                 /\ response'[s].action_triggered = None
                 /\ response'[s].device_id = None
                 /\ devices' = devices
                 /\ sent' = sent
                 /\ last_gesture'[s] = frame'[s].gesture
                 /\ gesture_start_time'[s] = now
          /\ Fires(s) =>
                 /\ obs[s].gesture = frame'[s].gesture
                 /\ last_gesture[s] = frame'[s].gesture
                 /\ obs[s].since <= gesture_start_time[s]
                 /\ gesture_start_time[s] <= now]_vars

\* With a hold time of zero or less, the first open palm after a fist is
\* about to be answered with no command and no hold duration, and the devices
\* are as they were at process start.
C28_Witness ==
    \E s \in Sessions :
        /\ pc[s] = "reply"
        /\ gesture_settings.hold_time <= 0
        /\ frame[s].gesture = "OPEN PALM (ON)"
        /\ obs[s].broke
        /\ obs[s].since = now
        /\ response[s].hold_duration = NoTime
        /\ response[s].action_triggered = None
        /\ \A d \in DOMAIN devices : ~devices[d].state

\* C29: the simulation's hold logic and the session's are equivalent: fed
\* the same frames at the same instants, with the same hold time, the
\* simulation executes a command on exactly the frames on which the session
\* fires one, and the same one, on for an open palm and off for a fist.
C29_SimulationEquivalent ==
    [][\A s \in Sessions :
          (FrameStep(s) /\ gesture_settings.hold_time = gesture_hold_time) =>
              /\ Fires(s) <=> simulation'[s].command # None
              /\ Fires(s) =>
                     (simulation'[s].command = "ON"
                          <=> devices'[current_device].state)]_vars

=============================================================================
